---- MODULE Spec2Model ----
(***************************************************************************)
(* MediVault: the MedicalRecord contract (permission bitmasks, encrypted   *)
(* record handles, the FHE access list it drives) and the React frontend   *)
(* that wraps its three write calls.                                       *)
(*                                                                         *)
(* Spec    : the contract, driven by arbitrary externally owned accounts.  *)
(* SpecUI  : the frontend (tabs, the two components, their async handlers).*)
(* SpecUILive: SpecUI in which every await of a handler settles.           *)
(* SpecForm: RecordSubmit.handleSubmit over a wide range of form values.   *)
(* SpecRevocation: the contract with the revocations of one pair watched.  *)
(***************************************************************************)
EXTENDS Integers, Sequences, FiniteSets, TLC

(***************************************************************************)
(* Bounds                                                                  *)
(***************************************************************************)
\* transactions sent to the contract in one behaviour
MaxCalls == 3

(***************************************************************************)
(* Addresses                                                               *)
(***************************************************************************)
\* address(0)
ZeroAddress == 0
\* address(this), the deployed MedicalRecord contract
This == 3
\* externally owned accounts that send transactions
Accounts == {1, 2}
\* every address a viewer argument can name
Address == {ZeroAddress} \cup Accounts \cup {This}

(***************************************************************************)
(* uint8 arithmetic                                                        *)
(***************************************************************************)
\* bit i of x, for the eight bits of a uint8
Bit(x, i) ==
    CASE i = 0 -> x % 2
      [] i = 1 -> (x \div 2) % 2
      [] i = 2 -> (x \div 4) % 2
      [] i = 3 -> (x \div 8) % 2
      [] i = 4 -> (x \div 16) % 2
      [] i = 5 -> (x \div 32) % 2
      [] i = 6 -> (x \div 64) % 2
      [] i = 7 -> (x \div 128) % 2

\* the uint8 whose bits are b0 (lowest) .. b7
FromBits(b0, b1, b2, b3, b4, b5, b6, b7) ==
    b0 + 2 * b1 + 4 * b2 + 8 * b3 + 16 * b4 + 32 * b5 + 64 * b6 + 128 * b7

\* a & b on uint8, bit by bit
BitwiseAnd(a, b) ==
    FromBits(Bit(a, 0) * Bit(b, 0), Bit(a, 1) * Bit(b, 1), Bit(a, 2) * Bit(b, 2),
             Bit(a, 3) * Bit(b, 3), Bit(a, 4) * Bit(b, 4), Bit(a, 5) * Bit(b, 5),
             Bit(a, 6) * Bit(b, 6), Bit(a, 7) * Bit(b, 7))
\* the same, tabulated once for all uint8 operands
And8Table == [a \in 0..255 |-> [b \in 0..255 |-> BitwiseAnd(a, b)]]
And8(a, b) == And8Table[a][b]
\* ~a on uint8
Not8(a) == 255 - (a % 256)
\* a | b on uint8 (De Morgan over the two operators above)
Or8(a, b) == Not8(And8(Not8(a), Not8(b)))

\* the uint8 arguments the model sends as metricMask: none, every single bit,
\* all three, and a value with bits above bit 2 set (250 = 0xFA, 250 & 7 = 2)
MaskInputs == {0, 1, 2, 4, 7, 250}

(***************************************************************************)
(* Contract constants                                                      *)
(***************************************************************************)
METRIC_BLOOD_PRESSURE == 1
METRIC_HEART_RATE == 2
METRIC_GLUCOSE == 4
METRIC_ALL == Or8(Or8(METRIC_BLOOD_PRESSURE, METRIC_HEART_RATE), METRIC_GLUCOSE)

(***************************************************************************)
(* Ciphertext handles.  The frontend encrypts the three metrics in one     *)
(* input and passes handles[0], handles[1], handles[2]; the input proof    *)
(* binds the input to the sending account.  A handle is therefore          *)
(* <<owner, input, index>>.  Nothing in the contract stops an account from *)
(* sending an input it has sent before.                                    *)
(***************************************************************************)
\* the encrypted inputs (one encrypt() result each) an account has at hand
Inputs == {1, 2}
Handle == Accounts \X Inputs \X {0, 1, 2}
\* euint32.wrap(0): the value of an unset storage slot
NoHandle == <<0, 0, 0>>

\* FHE.fromExternal: checks the proof and yields the handle itself
fromExternal(sender, input, index) == <<sender, input, index>>

\* the default value of _records[p]
EmptyRecord == [bloodPressure |-> NoHandle, heartRate |-> NoHandle,
                glucoseLevel |-> NoHandle, lastUpdated |-> 0, initialized |-> FALSE]

VARIABLES
    permissions,   \* _permissions[patient][viewer]
    records,       \* _records[patient]
    acl,           \* the FHE library's persistent access list of each handle
    now,           \* block.timestamp of the latest block
    logs,          \* the events of the latest transaction
    lastOp,        \* the function the latest transaction called, and whether it reverted
    granted,       \* history: <<h, v>> when h's owner granted h's metric to v while h was current
    watch,         \* history: the <<patient, viewer>> pair whose revocations are followed
    revokedBits,   \* history: bits watch[1] revoked from watch[2] and has not granted since
    lastSubmit     \* history: the latest successful submitRecord of each account

varsC == <<permissions, records, acl, now, logs, lastOp,
           granted, watch, revokedBits, lastSubmit>>

\* the frontend's state (described with the frontend, below)
VARIABLES
    activeTab,        \* AppContent: 'submit' | 'access'
    inst,             \* the number of the mounted component instance
    isConnected,      \* useAccount().isConnected
    address,          \* useAccount().address
    walletClient,     \* useWalletClient().data is defined
    fheInstance,      \* useFheInstance: instance
    fheLoading,       \* useFheInstance: isLoading
    fheError,         \* useFheInstance: error
    fheInits,         \* initFhe() calls in flight: [owner, pc]
    bloodPressure,    \* RecordSubmit state
    heartRate,
    glucoseLevel,
    rsIsSubmitting,   \* RecordSubmit: isSubmitting
    rsStatus,         \* RecordSubmit: status
    viewerAddress,    \* AccessControl state
    selectedMetrics,
    acIsSubmitting,   \* AccessControl: isSubmitting
    acStatus,         \* AccessControl: status
    tasks,            \* handler calls in flight: [kind, owner, pc, args]
    sent              \* the latest contract call made by a handler

varsU == <<activeTab, inst, isConnected, address, walletClient, fheInstance, fheLoading,
           fheError, fheInits, bloodPressure, heartRate, glucoseLevel, rsIsSubmitting,
           rsStatus, viewerAddress, selectedMetrics, acIsSubmitting, acStatus, tasks, sent>>

vars == <<varsC, varsU>>

NoCall == [op |-> "none", reverted |-> FALSE]
NoSubmit == [input |-> 0, time |-> 0]
NoWatch == <<0, 0>>

InitC ==
    /\ permissions = [p \in Accounts |-> [v \in Address |-> 0]]
    /\ records = [p \in Accounts |-> EmptyRecord]
    /\ acl = [h \in Handle |-> {}]
    /\ now = 1
    /\ logs = <<>>
    /\ lastOp = NoCall
    /\ granted = {}
    /\ watch = NoWatch
    /\ revokedBits = 0
    /\ lastSubmit = [p \in Accounts |-> NoSubmit]

(***************************************************************************)
(* The FHE library's access list                                           *)
(***************************************************************************)
\* FHE.allow(handle, account): the account joins the handle's list
allow(a, h, account) == [a EXCEPT ![h] = @ \cup {account}]
\* FHE.allowThis(handle)
allowThis(a, h) == allow(a, h, This)

(***************************************************************************)
(* Read functions                                                          *)
(***************************************************************************)
getRecord(p) == <<records[p].bloodPressure, records[p].heartRate, records[p].glucoseLevel>>
hasRecord(p) == records[p].initialized
getLastUpdated(p) == records[p].lastUpdated
getAccess(p, v) == permissions[p][v]

\* every transaction is mined in a block of its own, one time unit after the last
\* (block.timestamp is read by submitRecord only)
BlockTime == now + 1

(***************************************************************************)
(* submitRecord                                                            *)
(***************************************************************************)
\* mutant: a resubmission keeps the first timestamp
SubmitStruct_KeepTime(old, bp, hr, gl, t) ==
    [bloodPressure |-> bp, heartRate |-> hr, glucoseLevel |-> gl,
     lastUpdated |-> IF old.initialized THEN old.lastUpdated ELSE t,
     initialized |-> TRUE]

\* the struct stored in _records[msg.sender]
SubmitStruct(old, bp, hr, gl, t) ==
    [bloodPressure |-> bp, heartRate |-> hr, glucoseLevel |-> gl,
     lastUpdated |-> t, initialized |-> TRUE]

\* mutant: viewers holding any permission bit are put on all three new lists
SubmitAcl_AnyBit(a, old, r, sender) ==
    LET holders == {v \in Address : permissions[sender][v] # 0}
    IN [a EXCEPT ![r.bloodPressure] = @ \cup {This, sender} \cup holders,
                 ![r.heartRate] = @ \cup {This, sender} \cup holders,
                 ![r.glucoseLevel] = @ \cup {This, sender} \cup holders]

\* mutant: viewers holding a permission bit are put on the new handle's list
SubmitAcl_Permitted(a, old, r, sender) ==
    LET holders(m) == {v \in Address : And8(permissions[sender][v], m) # 0}
    IN [a EXCEPT ![r.bloodPressure] = @ \cup {This, sender} \cup holders(METRIC_BLOOD_PRESSURE),
                 ![r.heartRate] = @ \cup {This, sender} \cup holders(METRIC_HEART_RATE),
                 ![r.glucoseLevel] = @ \cup {This, sender} \cup holders(METRIC_GLUCOSE)]

\* the six FHE.allowThis / FHE.allow calls of submitRecord
SubmitAcl(a, old, r, sender) ==
    LET a1 == allowThis(a, r.bloodPressure)
        a2 == allowThis(a1, r.heartRate)
        a3 == allowThis(a2, r.glucoseLevel)
        a4 == allow(a3, r.bloodPressure, sender)
        a5 == allow(a4, r.heartRate, sender)
    IN allow(a5, r.glucoseLevel, sender)

submitRecord(sender, input) ==
    LET euintBloodPressure == fromExternal(sender, input, 0)
        euintHeartRate == fromExternal(sender, input, 1)
        euintGlucose == fromExternal(sender, input, 2)
        t == BlockTime
        r == SubmitStruct(records[sender], euintBloodPressure, euintHeartRate,
                          euintGlucose, t)
    IN /\ now <= MaxCalls
       /\ now' = t
       /\ records' = [records EXCEPT ![sender] = r]
       /\ acl' = SubmitAcl(acl, records[sender], r, sender)
       /\ logs' = <<[event |-> "RecordUpdated", patient |-> sender, timestamp |-> t]>>
       /\ lastOp' = [op |-> "submitRecord", reverted |-> FALSE]
       /\ lastSubmit' = [lastSubmit EXCEPT ![sender] = [input |-> input, time |-> t]]
       /\ UNCHANGED <<permissions, granted, watch, revokedBits>>
       /\ UNCHANGED varsU

(***************************************************************************)
(* grantAccess                                                             *)
(***************************************************************************)
\* mutant: the zero address is accepted
ViewerValid_Any(viewer) == TRUE

\* require(viewer != address(0), "Invalid viewer address")
ViewerValid(viewer) == viewer # ZeroAddress

\* the value grantAccess stores in _permissions[msg.sender][viewer]
GrantStored(prev, mask) == mask

\* mutant: the access list is extended whether or not a record exists, for all metrics
GrantAcl_All(a, r, viewer, mask) ==
    IF r.initialized
    THEN allow(allow(allow(a, r.bloodPressure, viewer), r.heartRate, viewer),
               r.glucoseLevel, viewer)
    ELSE a

\* the FHE.allow calls of grantAccess
GrantAcl(a, r, viewer, mask) ==
    IF r.initialized
    THEN LET a1 == IF And8(mask, METRIC_BLOOD_PRESSURE) # 0
                   THEN allow(a, r.bloodPressure, viewer) ELSE a
             a2 == IF And8(mask, METRIC_HEART_RATE) # 0
                   THEN allow(a1, r.heartRate, viewer) ELSE a1
         IN IF And8(mask, METRIC_GLUCOSE) # 0
            THEN allow(a2, r.glucoseLevel, viewer) ELSE a2
    ELSE a

\* history: the handles on which this call grants the viewer, read off the
\* caller's arguments and current record
GrantedNow(sender, viewer, metricMask) ==
    IF records[sender].initialized
    THEN {<<getRecord(sender)[i + 1], viewer>> : i \in {j \in 0..2 : Bit(metricMask, j) = 1}}
    ELSE {}

grantAccess(sender, viewer, metricMask) ==
    /\ now <= MaxCalls
    /\ now' = BlockTime
    /\ UNCHANGED varsU
    /\ IF ~ViewerValid(viewer)
       THEN /\ logs' = <<>>
            /\ lastOp' = [op |-> "grantAccess", reverted |-> TRUE,
                          reason |-> "Invalid viewer address"]
            /\ UNCHANGED <<permissions, records, acl, granted, watch, revokedBits,
                           lastSubmit>>
       ELSE LET mask == And8(metricMask, METRIC_ALL)
                stored == GrantStored(permissions[sender][viewer], mask)
            IN /\ permissions' = [permissions EXCEPT ![sender][viewer] = stored]
               /\ acl' = GrantAcl(acl, records[sender], viewer, mask)
               /\ logs' = <<[event |-> "AccessChanged", patient |-> sender,
                             viewer |-> viewer, permissions |-> mask]>>
               /\ lastOp' = [op |-> "grantAccess", reverted |-> FALSE]
               /\ granted' = granted \cup GrantedNow(sender, viewer, metricMask)
               /\ revokedBits' = IF watch = <<sender, viewer>>
                                  THEN And8(revokedBits, Not8(And8(metricMask, 7)))
                                  ELSE revokedBits
               /\ UNCHANGED <<records, lastSubmit, watch>>

(***************************************************************************)
(* revokeAccess                                                            *)
(***************************************************************************)
\* mutant: the bits are toggled instead of cleared
RevokeNext_Xor(prev, mask) == Or8(And8(prev, Not8(mask)), And8(Not8(prev), mask))

\* uint8 next = prev & (~mask)
RevokeNext(prev, mask) == And8(prev, Not8(mask))

\* mutant: a revoked viewer is taken off the current handles' lists
RevokeAcl_Retract(a, r, viewer, mask) ==
    IF r.initialized
    THEN [h \in Handle |->
            IF \/ (h = r.bloodPressure /\ And8(mask, METRIC_BLOOD_PRESSURE) # 0)
               \/ (h = r.heartRate /\ And8(mask, METRIC_HEART_RATE) # 0)
               \/ (h = r.glucoseLevel /\ And8(mask, METRIC_GLUCOSE) # 0)
            THEN a[h] \ {viewer} ELSE a[h]]
    ELSE a

\* revokeAccess makes no call to the FHE library
RevokeAcl(a, r, viewer, mask) == a

\* mutant: the mapping is indexed viewer first, so the viewer's row is written
revokeAccess_SwappedKeys(sender, viewer, metricMask) ==
    LET mask == And8(metricMask, METRIC_ALL)
        prev == permissions[sender][viewer]
        next == RevokeNext(prev, mask)
    IN /\ now <= MaxCalls
       /\ now' = BlockTime
       /\ permissions' = IF viewer \in Accounts
                         THEN [permissions EXCEPT ![viewer][sender] = next]
                         ELSE [permissions EXCEPT ![sender][viewer] = next]
       /\ acl' = RevokeAcl(acl, records[sender], viewer, mask)
       /\ logs' = <<[event |-> "AccessChanged", patient |-> sender,
                     viewer |-> viewer, permissions |-> next]>>
       /\ lastOp' = [op |-> "revokeAccess", reverted |-> FALSE]
       /\ revokedBits' = IF watch = <<sender, viewer>>
                          THEN Or8(revokedBits, And8(metricMask, 7))
                          ELSE revokedBits
       /\ UNCHANGED <<records, granted, lastSubmit, watch>>
       /\ UNCHANGED varsU

revokeAccess(sender, viewer, metricMask) ==
    LET mask == And8(metricMask, METRIC_ALL)
        prev == permissions[sender][viewer]
        next == RevokeNext(prev, mask)
    IN /\ now <= MaxCalls
       /\ now' = BlockTime
       /\ permissions' = [permissions EXCEPT ![sender][viewer] = next]
       /\ acl' = RevokeAcl(acl, records[sender], viewer, mask)
       /\ logs' = <<[event |-> "AccessChanged", patient |-> sender,
                     viewer |-> viewer, permissions |-> next]>>
       /\ lastOp' = [op |-> "revokeAccess", reverted |-> FALSE]
       /\ revokedBits' = IF watch = <<sender, viewer>>
                          THEN Or8(revokedBits, And8(metricMask, 7))
                          ELSE revokedBits
       /\ UNCHANGED <<records, granted, lastSubmit, watch>>
       /\ UNCHANGED varsU

NextC ==
    \/ \E s \in Accounts, k \in Inputs : submitRecord(s, k)
    \/ \E s \in Accounts, v \in Address, m \in MaskInputs : grantAccess(s, v, m)
    \/ \E s \in Accounts, v \in Address, m \in MaskInputs : revokeAccess(s, v, m)

(***************************************************************************)
(* The frontend.  AppContent renders RecordSubmit or AccessControl          *)
(* according to activeTab; switching tabs unmounts one and mounts a fresh   *)
(* instance of the other.  An async handler that has started keeps running  *)
(* after its component is unmounted; its state updates then go nowhere.     *)
(***************************************************************************)
\* component instances mounted in one behaviour (tab switches + 1)
MaxMounts == 3

\* a value that is null / undefined
Null == "null"

\* text of an input as a sequence of characters
Digits == {"0", "1", "2", "3", "4", "5", "6", "7", "8", "9"}
DigitVal(c) ==
    CASE c = "0" -> 0 [] c = "1" -> 1 [] c = "2" -> 2 [] c = "3" -> 3 [] c = "4" -> 4
      [] c = "5" -> 5 [] c = "6" -> 6 [] c = "7" -> 7 [] c = "8" -> 8 [] c = "9" -> 9

NaN == [nan |-> TRUE, val |-> 0]
Num(n) == [nan |-> FALSE, val |-> n]

RECURSIVE SkipSpaces(_)
SkipSpaces(str) ==
    IF str # <<>> /\ Head(str) = " " THEN SkipSpaces(Tail(str)) ELSE str

\* the value of the longest prefix of digits, continuing from acc
RECURSIVE ReadDigits(_, _)
ReadDigits(str, acc) ==
    IF str # <<>> /\ Head(str) \in Digits
    THEN ReadDigits(Tail(str), 10 * acc + DigitVal(Head(str)))
    ELSE acc

\* parseInt(value) of JavaScript for decimal text: leading white space and a
\* sign are skipped, digits are read up to the first other character, and the
\* result is NaN when no digit is read
parseInt(value) ==
    LET t == SkipSpaces(value)
        signed == t # <<>> /\ Head(t) \in {"-", "+"}
        body == IF signed THEN Tail(t) ELSE t
    IN IF body = <<>> \/ Head(body) \notin Digits THEN NaN
       ELSE IF signed /\ Head(t) = "-" THEN Num(0 - ReadDigits(body, 0))
       ELSE Num(ReadDigits(body, 0))

METRIC_RANGES ==
    [bloodPressure |-> [min |-> 70, max |-> 200],
     heartRate |-> [min |-> 40, max |-> 200],
     glucoseLevel |-> [min |-> 50, max |-> 400]]

\* mutant: the upper bound is not checked
validateMetric_NoMax(value, type) ==
    LET num == parseInt(value)
        range == METRIC_RANGES[type]
    IN ~num.nan /\ num.val >= range.min

validateMetric(value, type) ==
    LET num == parseInt(value)
        range == METRIC_RANGES[type]
    IN ~num.nan /\ num.val >= range.min /\ num.val <= range.max

\* the bits of contracts.ts METRICS
METRICS == [BLOOD_PRESSURE |-> 1, HEART_RATE |-> 2, GLUCOSE |-> 4, ALL |-> 7]

\* what the user can type into a metric input while using the two tabs
UiMetricTexts == {<<>>, <<"1", "2", "0">>}
\* what the user can type into the viewer address input
ValidViewer == "0x00000000000000000000000000000000000000A1"
UiViewerTexts == {"", "0x12", ValidViewer}
\* ethers.isAddress
isAddress(text) == text = ValidViewer


NoStatus == [type |-> Null, message |-> ""]
Status(type, message) == [type |-> type, message |-> message]
NoMetrics == [bloodPressure |-> FALSE, heartRate |-> FALSE, glucoseLevel |-> FALSE]
NothingSent == [fn |-> Null]

\* the wallet as wagmi reports it: disconnected, reconnecting (an address, not
\* yet connected) or connected; the wallet client only once connected
WalletStates ==
    {w \in [isConnected : BOOLEAN, address : {Null, "0xPatient"}, walletClient : BOOLEAN] :
        /\ w.isConnected => w.address # Null
        /\ w.walletClient => w.isConnected}

\* useState initial values of RecordSubmit and of its useFheInstance hook,
\* with the hook's effect started
MountRecordSubmit(id) ==
    /\ bloodPressure' = <<>>
    /\ heartRate' = <<>>
    /\ glucoseLevel' = <<>>
    /\ rsIsSubmitting' = FALSE
    /\ rsStatus' = NoStatus
    /\ fheInstance' = Null
    /\ fheLoading' = TRUE
    /\ fheError' = Null
    /\ fheInits' = fheInits \cup {[owner |-> id, pc |-> "initSDK"]}

\* RecordSubmit is not rendered: its state is gone
UnmountRecordSubmit ==
    /\ bloodPressure' = <<>>
    /\ heartRate' = <<>>
    /\ glucoseLevel' = <<>>
    /\ rsIsSubmitting' = FALSE
    /\ rsStatus' = NoStatus
    /\ fheInstance' = Null
    /\ fheLoading' = TRUE
    /\ fheError' = Null
    /\ fheInits' = fheInits

\* useState initial values of AccessControl; also its state when not rendered
ResetAccessControl ==
    /\ viewerAddress' = ""
    /\ selectedMetrics' = NoMetrics
    /\ acIsSubmitting' = FALSE
    /\ acStatus' = NoStatus

InitU ==
    /\ activeTab = "submit"
    /\ inst = 1
    /\ \E w \in WalletStates :
          /\ isConnected = w.isConnected
          /\ address = w.address
          /\ walletClient = w.walletClient
    /\ fheInstance = Null
    /\ fheLoading = TRUE
    /\ fheError = Null
    /\ fheInits = {[owner |-> 1, pc |-> "initSDK"]}
    /\ bloodPressure = <<>>
    /\ heartRate = <<>>
    /\ glucoseLevel = <<>>
    /\ rsIsSubmitting = FALSE
    /\ rsStatus = NoStatus
    /\ viewerAddress = ""
    /\ selectedMetrics = NoMetrics
    /\ acIsSubmitting = FALSE
    /\ acStatus = NoStatus
    /\ tasks = {}
    /\ sent = NothingSent

walletVars == <<isConnected, address, walletClient>>
fheVars == <<fheInstance, fheLoading, fheError, fheInits>>
formVars == <<bloodPressure, heartRate, glucoseLevel>>
rsVars == <<bloodPressure, heartRate, glucoseLevel, rsIsSubmitting, rsStatus>>
acVars == <<viewerAddress, selectedMetrics, acIsSubmitting, acStatus>>

(***************************************************************************)
(* AppContent                                                              *)
(***************************************************************************)
\* onClick of a tab button: setActiveTab(tab)
setActiveTab(tab) ==
    /\ tab # activeTab
    /\ inst < MaxMounts
    /\ activeTab' = tab
    /\ inst' = inst + 1
    /\ IF tab = "submit" THEN MountRecordSubmit(inst + 1) ELSE UnmountRecordSubmit
    /\ ResetAccessControl
    /\ UNCHANGED <<varsC, walletVars, tasks, sent>>

(***************************************************************************)
(* useFheInstance                                                          *)
(***************************************************************************)
\* the effect's `mounted` flag of the initFhe() call i
Mounted(i) == activeTab = "submit" /\ i.owner = inst

\* mutant: state is set whether or not the component is still mounted
FheMounted_Always(i) == activeTab = "submit"

\* if (mounted) in initFhe
FheMounted(i) == Mounted(i)

\* await initSDK() resolves
initSDKResolved(i) ==
    /\ i \in fheInits /\ i.pc = "initSDK"
    /\ fheInits' = (fheInits \ {i}) \cup {[i EXCEPT !.pc = "createInstance"]}
    /\ UNCHANGED <<varsC, activeTab, inst, walletVars, fheInstance, fheLoading, fheError,
                   rsVars, acVars, tasks, sent>>

\* await createInstance(SepoliaConfig) resolves
createInstanceResolved(i) ==
    /\ i \in fheInits /\ i.pc = "createInstance"
    /\ fheInits' = fheInits \ {i}
    /\ IF FheMounted(i)
       THEN fheInstance' = "instance" /\ fheLoading' = FALSE
       ELSE UNCHANGED <<fheInstance, fheLoading>>
    /\ UNCHANGED <<varsC, activeTab, inst, walletVars, fheError, rsVars, acVars, tasks, sent>>

\* initSDK() or createInstance() rejects
initFheRejected(i) ==
    /\ i \in fheInits
    /\ fheInits' = fheInits \ {i}
    /\ IF FheMounted(i)
       THEN fheError' = "Failed to initialize encryption service" /\ fheLoading' = FALSE
       ELSE UNCHANGED <<fheError, fheLoading>>
    /\ UNCHANGED <<varsC, activeTab, inst, walletVars, fheInstance, rsVars, acVars, tasks, sent>>

(***************************************************************************)
(* RecordSubmit                                                            *)
(***************************************************************************)
\* the form is rendered (not the spinner)
FormRendered == activeTab = "submit" /\ ~fheLoading

\* onChange of the three inputs (disabled while isSubmitting)
setBloodPressure(text) ==
    /\ FormRendered /\ ~rsIsSubmitting
    /\ bloodPressure' = text
    /\ UNCHANGED <<varsC, activeTab, inst, walletVars, fheVars, heartRate, glucoseLevel,
                   rsIsSubmitting, rsStatus, acVars, tasks, sent>>

setHeartRate(text) ==
    /\ FormRendered /\ ~rsIsSubmitting
    /\ heartRate' = text
    /\ UNCHANGED <<varsC, activeTab, inst, walletVars, fheVars, bloodPressure, glucoseLevel,
                   rsIsSubmitting, rsStatus, acVars, tasks, sent>>

setGlucoseLevel(text) ==
    /\ FormRendered /\ ~rsIsSubmitting
    /\ glucoseLevel' = text
    /\ UNCHANGED <<varsC, activeTab, inst, walletVars, fheVars, bloodPressure, heartRate,
                   rsIsSubmitting, rsStatus, acVars, tasks, sent>>

\* mutant: the wallet client is not checked
SubmitError_NoWalletCheck ==
    IF ~isConnected \/ address = Null THEN "Please connect your wallet first"
    ELSE IF fheInstance = Null
         THEN (IF fheError # Null THEN fheError ELSE "FHE encryption is still initializing")
    ELSE IF ~validateMetric(bloodPressure, "bloodPressure")
         THEN "Blood pressure must be between 70-200 mmHg"
    ELSE IF ~validateMetric(heartRate, "heartRate")
         THEN "Heart rate must be between 40-200 BPM"
    ELSE IF ~validateMetric(glucoseLevel, "glucoseLevel")
         THEN "Glucose level must be between 50-400 mg/dL"
    ELSE Null

\* the checks of handleSubmit before setIsSubmitting(true): the message of the
\* first that fails, or Null
SubmitError ==
    IF ~isConnected \/ address = Null THEN "Please connect your wallet first"
    ELSE IF fheInstance = Null
         THEN (IF fheError # Null THEN fheError ELSE "FHE encryption is still initializing")
    ELSE IF ~walletClient THEN "Wallet not ready"
    ELSE IF ~validateMetric(bloodPressure, "bloodPressure")
         THEN "Blood pressure must be between 70-200 mmHg"
    ELSE IF ~validateMetric(heartRate, "heartRate")
         THEN "Heart rate must be between 40-200 BPM"
    ELSE IF ~validateMetric(glucoseLevel, "glucoseLevel")
         THEN "Glucose level must be between 50-400 mg/dL"
    ELSE Null

\* handleSubmit up to its first await: the checks, setIsSubmitting(true), the
\* encrypted input with its three add32 values, input.encrypt() started
handleSubmit ==
    /\ activeTab = "submit"
    /\ IF SubmitError # Null
       THEN /\ rsStatus' = Status("error", SubmitError)
            /\ UNCHANGED <<rsIsSubmitting, tasks>>
       ELSE /\ rsStatus' = NoStatus
            /\ rsIsSubmitting' = TRUE
            /\ tasks' = tasks \cup
                 {[kind |-> "submitRecord", owner |-> inst, pc |-> "encrypt",
                   args |-> <<parseInt(bloodPressure).val, parseInt(heartRate).val,
                              parseInt(glucoseLevel).val>>]}
    /\ UNCHANGED <<varsC, activeTab, inst, walletVars, fheVars, formVars, acVars, sent>>

\* the form is submitted through its button (disabled={isSubmitting || !isConnected})
SubmitForm ==
    /\ FormRendered /\ ~rsIsSubmitting /\ isConnected
    /\ handleSubmit

(***************************************************************************)
(* AccessControl                                                           *)
(***************************************************************************)
AccessRendered == activeTab = "access"

\* onChange of the address input and of the three checkboxes (disabled while isSubmitting)
setViewerAddress(text) ==
    /\ AccessRendered /\ ~acIsSubmitting
    /\ viewerAddress' = text
    /\ UNCHANGED <<varsC, activeTab, inst, walletVars, fheVars, rsVars, selectedMetrics,
                   acIsSubmitting, acStatus, tasks, sent>>

setSelectedMetrics(metric, checked) ==
    /\ AccessRendered /\ ~acIsSubmitting
    /\ selectedMetrics' = [selectedMetrics EXCEPT ![metric] = checked]
    /\ UNCHANGED <<varsC, activeTab, inst, walletVars, fheVars, rsVars, viewerAddress,
                   acIsSubmitting, acStatus, tasks, sent>>

\* mutant: the heartRate checkbox sets the glucose bit
calculateMask_WrongBit ==
    LET m1 == IF selectedMetrics.bloodPressure THEN Or8(0, METRICS.BLOOD_PRESSURE) ELSE 0
        m2 == IF selectedMetrics.heartRate THEN Or8(m1, METRICS.GLUCOSE) ELSE m1
    IN IF selectedMetrics.glucoseLevel THEN Or8(m2, METRICS.GLUCOSE) ELSE m2

calculateMask ==
    LET m1 == IF selectedMetrics.bloodPressure THEN Or8(0, METRICS.BLOOD_PRESSURE) ELSE 0
        m2 == IF selectedMetrics.heartRate THEN Or8(m1, METRICS.HEART_RATE) ELSE m1
    IN IF selectedMetrics.glucoseLevel THEN Or8(m2, METRICS.GLUCOSE) ELSE m2

\* handleGrantAccess up to its first await
handleGrantAccess ==
    /\ activeTab = "access"
    /\ IF ~isConnected \/ ~walletClient
       THEN /\ acStatus' = Status("error", "Please connect your wallet")
            /\ UNCHANGED <<acIsSubmitting, tasks>>
       ELSE IF ~isAddress(viewerAddress)
       THEN /\ acStatus' = Status("error", "Invalid Ethereum address")
            /\ UNCHANGED <<acIsSubmitting, tasks>>
       ELSE IF calculateMask = 0
       THEN /\ acStatus' = Status("error", "Please select at least one metric")
            /\ UNCHANGED <<acIsSubmitting, tasks>>
       ELSE /\ acIsSubmitting' = TRUE
            /\ acStatus' = NoStatus
            /\ tasks' = tasks \cup
                 {[kind |-> "grantAccess", owner |-> inst, pc |-> "signer",
                   args |-> <<viewerAddress, calculateMask>>]}
    /\ UNCHANGED <<varsC, activeTab, inst, walletVars, fheVars, rsVars, viewerAddress,
                   selectedMetrics, sent>>

\* handleRevokeAccess up to its first await
handleRevokeAccess ==
    /\ activeTab = "access"
    /\ IF ~isConnected \/ ~walletClient
       THEN /\ acStatus' = Status("error", "Please connect your wallet")
            /\ UNCHANGED <<acIsSubmitting, tasks>>
       ELSE IF ~isAddress(viewerAddress)
       THEN /\ acStatus' = Status("error", "Invalid Ethereum address")
            /\ UNCHANGED <<acIsSubmitting, tasks>>
       ELSE /\ acIsSubmitting' = TRUE
            /\ acStatus' = NoStatus
            /\ tasks' = tasks \cup
                 {[kind |-> "revokeAccess", owner |-> inst, pc |-> "signer",
                   args |-> <<viewerAddress, METRICS.ALL>>]}
    /\ UNCHANGED <<varsC, activeTab, inst, walletVars, fheVars, rsVars, viewerAddress,
                   selectedMetrics, sent>>

\* the two buttons (disabled={isSubmitting || !isConnected})
GrantClick == AccessRendered /\ ~acIsSubmitting /\ isConnected /\ handleGrantAccess
RevokeClick == AccessRendered /\ ~acIsSubmitting /\ isConnected /\ handleRevokeAccess

(***************************************************************************)
(* The awaits of the three handlers                                        *)
(***************************************************************************)
\* the component instance that started t is still the one rendered
Alive(t) == t.owner = inst

InProgressMessage(t) ==
    CASE t.kind = "submitRecord" -> "Submitting health record..."
      [] t.kind = "grantAccess" -> "Granting access..."
      [] t.kind = "revokeAccess" -> "Revoking access..."

SuccessMessage(t) ==
    CASE t.kind = "submitRecord" -> "Health record submitted successfully!"
      [] t.kind = "grantAccess" -> "Access granted successfully!"
      [] t.kind = "revokeAccess" -> "Access revoked successfully!"

FailureMessage(t) ==
    IF t.kind = "submitRecord" THEN "Failed to submit: err" ELSE "Failed: err"

\* setStatus(st) called by the handler t
SetStatus(t, st) ==
    IF ~Alive(t) THEN UNCHANGED <<rsStatus, acStatus>>
    ELSE IF t.kind = "submitRecord" THEN rsStatus' = st /\ UNCHANGED acStatus
    ELSE acStatus' = st /\ UNCHANGED rsStatus

\* setIsSubmitting(false) in the finally block of the handler t
ClearSubmitting(t) ==
    IF ~Alive(t) THEN UNCHANGED <<rsIsSubmitting, acIsSubmitting>>
    ELSE IF t.kind = "submitRecord" THEN rsIsSubmitting' = FALSE /\ UNCHANGED acIsSubmitting
    ELSE acIsSubmitting' = FALSE /\ UNCHANGED rsIsSubmitting

\* await input.encrypt() resolves
encryptResolved(t) ==
    /\ t \in tasks /\ t.pc = "encrypt"
    /\ tasks' = (tasks \ {t}) \cup {[t EXCEPT !.pc = "signer"]}
    /\ UNCHANGED <<varsC, activeTab, inst, walletVars, fheVars, rsVars, acVars, sent>>

\* await provider.getSigner() resolves; the handler calls the contract function
getSignerResolved(t) ==
    /\ t \in tasks /\ t.pc = "signer"
    /\ tasks' = (tasks \ {t}) \cup {[t EXCEPT !.pc = "send"]}
    /\ sent' = [fn |-> t.kind, args |-> t.args]
    /\ UNCHANGED <<varsC, activeTab, inst, walletVars, fheVars, rsVars, acVars>>

\* await contract.<fn>(...) resolves with the transaction: the in-progress status
sendResolved(t) ==
    /\ t \in tasks /\ t.pc = "send"
    /\ tasks' = (tasks \ {t}) \cup {[t EXCEPT !.pc = "wait"]}
    /\ SetStatus(t, Status("success", InProgressMessage(t)))
    /\ UNCHANGED <<varsC, activeTab, inst, walletVars, fheVars, formVars, rsIsSubmitting,
                   viewerAddress, selectedMetrics, acIsSubmitting, sent>>

\* await tx.wait() resolves: final status, the inputs cleared, finally
waitResolved(t) ==
    /\ t \in tasks /\ t.pc = "wait"
    /\ tasks' = tasks \ {t}
    /\ SetStatus(t, Status("success", SuccessMessage(t)))
    /\ ClearSubmitting(t)
    /\ IF Alive(t) /\ t.kind = "submitRecord"
       THEN bloodPressure' = <<>> /\ heartRate' = <<>> /\ glucoseLevel' = <<>>
       ELSE UNCHANGED formVars
    /\ IF Alive(t) /\ t.kind # "submitRecord"
       THEN /\ viewerAddress' = ""
            /\ selectedMetrics' = IF t.kind = "grantAccess" THEN NoMetrics ELSE selectedMetrics
       ELSE UNCHANGED <<viewerAddress, selectedMetrics>>
    /\ UNCHANGED <<varsC, activeTab, inst, walletVars, fheVars, sent>>

\* mutant: setIsSubmitting(false) at the end of the try block, no finally
awaitRejected_NoFinally(t) ==
    /\ t \in tasks
    /\ tasks' = tasks \ {t}
    /\ SetStatus(t, Status("error", FailureMessage(t)))
    /\ UNCHANGED <<varsC, activeTab, inst, walletVars, fheVars, formVars, viewerAddress,
                   selectedMetrics, sent, rsIsSubmitting, acIsSubmitting>>

\* mutant: the inputs are cleared in the finally block
awaitRejected_ClearsForm(t) ==
    /\ t \in tasks
    /\ tasks' = tasks \ {t}
    /\ SetStatus(t, Status("error", FailureMessage(t)))
    /\ ClearSubmitting(t)
    /\ IF Alive(t) /\ t.kind = "submitRecord"
       THEN bloodPressure' = <<>> /\ heartRate' = <<>> /\ glucoseLevel' = <<>>
       ELSE UNCHANGED formVars
    /\ IF Alive(t) /\ t.kind # "submitRecord"
       THEN viewerAddress' = "" /\ UNCHANGED selectedMetrics
       ELSE UNCHANGED <<viewerAddress, selectedMetrics>>
    /\ UNCHANGED <<varsC, activeTab, inst, walletVars, fheVars, sent>>

\* any of the awaits rejects: catch, finally
awaitRejected(t) ==
    /\ t \in tasks
    /\ tasks' = tasks \ {t}
    /\ SetStatus(t, Status("error", FailureMessage(t)))
    /\ ClearSubmitting(t)
    /\ UNCHANGED <<varsC, activeTab, inst, walletVars, fheVars, formVars, viewerAddress,
                   selectedMetrics, sent>>

\* the steps in which a promise of a running handler or of initFhe settles
Settle ==
    \/ \E i \in fheInits : initSDKResolved(i)
    \/ \E i \in fheInits : createInstanceResolved(i)
    \/ \E i \in fheInits : initFheRejected(i)
    \/ \E t \in tasks : encryptResolved(t)
    \/ \E t \in tasks : getSignerResolved(t)
    \/ \E t \in tasks : sendResolved(t)
    \/ \E t \in tasks : waitResolved(t)
    \/ \E t \in tasks : awaitRejected(t)

NextU ==
    \/ \E tab \in {"submit", "access"} : setActiveTab(tab)
    \/ \E text \in UiMetricTexts : setBloodPressure(text)
    \/ \E text \in UiMetricTexts : setHeartRate(text)
    \/ \E text \in UiMetricTexts : setGlucoseLevel(text)
    \/ SubmitForm
    \/ \E text \in UiViewerTexts : setViewerAddress(text)
    \/ \E metric \in {"bloodPressure", "heartRate", "glucoseLevel"}, checked \in BOOLEAN :
          setSelectedMetrics(metric, checked)
    \/ GrantClick
    \/ RevokeClick
    \/ Settle

\* the contract alone: the frontend stays as loaded, with no wallet
Init == InitC /\ InitU /\ ~isConnected /\ address = Null
Next == NextC
Spec == Init /\ [][Next]_vars

InitUI == InitC /\ InitU
NextUI == NextU
SpecUI == InitUI /\ [][NextUI]_vars

\* a pending await of a running handler settles and the handler continues
TaskSettles ==
    \E t \in tasks :
        \/ encryptResolved(t)
        \/ getSignerResolved(t)
        \/ sendResolved(t)
        \/ waitResolved(t)
        \/ awaitRejected(t)

\* the frontend when every await of a handler settles (resolves or rejects)
\* and the event loop then runs the handler's continuation
SpecUILive == InitUI /\ [][NextUI]_vars /\ WF_vars(TaskSettles)

(***************************************************************************)
(* RecordSubmit.handleSubmit over a wide range of form values: the form is *)
(* rendered (the FHE initialization has settled one way or the other), the *)
(* three inputs hold text, and the form's submit event is delivered:       *)
(* through the button, or by requestSubmit() while the button is disabled  *)
(* for lack of a connected wallet.                                         *)
(***************************************************************************)
BloodPressureTexts ==
    {<<>>, <<"6", "9">>, <<"7", "0">>, <<"2", "0", "0">>, <<"2", "0", "1">>,
     <<"1", "2", "0", "a", "b">>}
HeartRateTexts ==
    {<<"x">>, <<"3", "9">>, <<"4", "0">>, <<"2", "0", "0">>, <<"2", "0", "1">>,
     <<" ", "7", "2">>}
GlucoseTexts ==
    {<<"4", "9">>, <<"5", "0">>, <<"4", "0", "0">>, <<"4", "0", "1">>, <<"-", "9", "5">>,
     <<"9", "5", ".", "5">>}

InitForm ==
    /\ InitC
    /\ activeTab = "submit"
    /\ inst = 1
    /\ \E w \in WalletStates :
          /\ isConnected = w.isConnected
          /\ address = w.address
          /\ walletClient = w.walletClient
    /\ \E ok \in BOOLEAN :
          /\ fheInstance = IF ok THEN "instance" ELSE Null
          /\ fheError = IF ok THEN Null ELSE "Failed to initialize encryption service"
    /\ fheLoading = FALSE
    /\ fheInits = {}
    /\ bloodPressure \in BloodPressureTexts
    /\ heartRate \in HeartRateTexts
    /\ glucoseLevel \in GlucoseTexts
    /\ rsIsSubmitting = FALSE
    /\ rsStatus = NoStatus
    /\ viewerAddress = ""
    /\ selectedMetrics = NoMetrics
    /\ acIsSubmitting = FALSE
    /\ acStatus = NoStatus
    /\ tasks = {}
    /\ sent = NothingSent

\* the submit event of the rendered form
requestSubmit == FormRendered /\ ~rsIsSubmitting /\ handleSubmit

NextForm ==
    \/ requestSubmit
    \/ \E t \in tasks : encryptResolved(t)
    \/ \E t \in tasks : getSignerResolved(t)
    \/ \E t \in tasks : sendResolved(t)
    \/ \E t \in tasks : waitResolved(t)
    \/ \E t \in tasks : awaitRejected(t)

SpecForm == InitForm /\ [][NextForm]_vars

(***************************************************************************)
(* The contract with the revocations of one <<patient, viewer>> pair       *)
(* followed.  Only the patient sends transactions here: the calls of other *)
(* accounts write neither the patient's row of _permissions nor the lists  *)
(* of the patient's handles.                                               *)
(***************************************************************************)
InitRevocation ==
    /\ permissions = [p \in Accounts |-> [v \in Address |-> 0]]
    /\ records = [p \in Accounts |-> EmptyRecord]
    /\ acl = [h \in Handle |-> {}]
    /\ now = 1
    /\ logs = <<>>
    /\ lastOp = NoCall
    /\ granted = {}
    /\ watch \in Accounts \X Address
    /\ revokedBits = 0
    /\ lastSubmit = [p \in Accounts |-> NoSubmit]
    /\ InitU /\ ~isConnected /\ address = Null

NextRevocation ==
    \/ \E k \in Inputs : submitRecord(watch[1], k)
    \/ \E v \in Address, m \in MaskInputs : grantAccess(watch[1], v, m)
    \/ \E v \in Address, m \in MaskInputs : revokeAccess(watch[1], v, m)

SpecRevocation == InitRevocation /\ [][NextRevocation]_vars

(***************************************************************************)
(* Properties of the contract                                              *)
(***************************************************************************)
\* msg.sender and the viewer argument of the latest grantAccess / revokeAccess,
\* as its AccessChanged event names them
EventPatient == logs[1].patient
EventViewer == logs[1].viewer
Metrics == {0, 1, 2}

\* C1: grantAccess is cumulative: after p calls grantAccess(v, m) a bit of
\* getAccess(p, v) is set exactly when it was set before or is one of the three
\* metric bits and set in m (the stored value is prev OR (m AND 7)).
C1_GrantCumulative ==
    [][(lastOp'.op = "grantAccess" /\ ~lastOp'.reverted) =>
        LET p == EventPatient'
            v == EventViewer'
        IN \A m \in MaskInputs :
              grantAccess(p, v, m) =>
                  \A i \in 0..7 :
                      Bit(permissions'[p][v], i) = 1 <=>
                          \/ Bit(getAccess(p, v), i) = 1
                          \/ (i \in Metrics /\ Bit(m, i) = 1)]_vars

\* C2: revokeAccess clears exactly the requested bits: after p calls
\* revokeAccess(v, m) a bit of getAccess(p, v) is set exactly when it was set
\* before and is not a metric bit set in m; revokeAccess(v, 7) leaves 0; the
\* AccessChanged event carries the new stored value.
C2_RevokeClearsBits ==
    [][lastOp'.op = "revokeAccess" =>
        LET p == EventPatient'
            v == EventViewer'
        IN \A m \in MaskInputs :
              revokeAccess(p, v, m) =>
                  /\ \A i \in 0..7 :
                        Bit(permissions'[p][v], i) = 1 <=>
                            /\ Bit(getAccess(p, v), i) = 1
                            /\ ~(i \in Metrics /\ Bit(m, i) = 1)
                  /\ (m = 7 => permissions'[p][v] = 0)
                  /\ logs' = <<[event |-> "AccessChanged", patient |-> p, viewer |-> v,
                                permissions |-> permissions'[p][v]]>>]_vars

\* a revokeAccess has just cleared some but not all bits of a viewer
C2_Witness ==
    /\ lastOp.op = "revokeAccess"
    /\ getAccess(EventPatient, EventViewer) \in {1, 2, 3, 4, 5, 6}
    /\ logs[1].permissions = getAccess(EventPatient, EventViewer)

\* C3: revocation is logical only: revokeAccess changes no record, no access
\* list and no permission other than the caller's bitmask for that viewer, and
\* no step of the contract takes an address off a handle's access list.
C3_RevokeLogicalOnly ==
    [][/\ lastOp'.op = "revokeAccess" =>
            /\ records' = records
            /\ acl' = acl
            /\ \A p \in Accounts, v \in Address :
                  <<p, v>> # <<EventPatient', EventViewer'>> =>
                      permissions'[p][v] = getAccess(p, v)
       /\ \A h \in Handle : acl[h] \subseteq acl'[h]]_vars

\* a viewer whose bits were all revoked is still on the list of a current handle
C3_Witness ==
    /\ lastOp.op = "revokeAccess"
    /\ EventViewer \notin {EventPatient, This}
    /\ getAccess(EventPatient, EventViewer) = 0
    /\ hasRecord(EventPatient)
    /\ EventViewer \in acl[records[EventPatient].bloodPressure]

\* p's current handle of metric i
CurrentHandle(p, i) == getRecord(p)[i + 1]

C5_GrantExtendsAcl ==
    [][(lastOp'.op = "grantAccess" /\ ~lastOp'.reverted) =>
        \A m \in MaskInputs :
            grantAccess(EventPatient', EventViewer', m) =>
                LET p == EventPatient'
                    v == EventViewer'
                IN /\ hasRecord(p) =>
                        /\ \A i \in Metrics :
                              IF Bit(m, i) = 1
                              THEN v \in acl'[CurrentHandle(p, i)]
                              ELSE acl'[CurrentHandle(p, i)] = acl[CurrentHandle(p, i)]
                        /\ \A h \in Handle :
                              /\ acl'[h] \subseteq acl[h] \cup {v}
                              /\ (\A i \in Metrics : h # CurrentHandle(p, i)) => acl'[h] = acl[h]
                   /\ ~hasRecord(p) =>
                        /\ acl' = acl
                        /\ \A i \in Metrics : Bit(m, i) = 1 => Bit(permissions'[p][v], i) = 1]_vars

\* a grant on an existing record put the viewer on one metric's list and not on another's
C5_Witness ==
    /\ lastOp.op = "grantAccess" /\ ~lastOp.reverted
    /\ hasRecord(EventPatient)
    /\ EventViewer \notin {EventPatient, This}
    /\ \E i, j \in Metrics :
          /\ Bit(logs[1].permissions, i) = 1
          /\ EventViewer \in acl[CurrentHandle(EventPatient, i)]
          /\ Bit(logs[1].permissions, j) = 0
          /\ EventViewer \notin acl[CurrentHandle(EventPatient, j)]

\* the three handles of an account's encrypted input
HandlesOf(p, k) == <<fromExternal(p, k, 0), fromExternal(p, k, 1), fromExternal(p, k, 2)>>

\* C6: after any submitRecord by p, hasRecord(p) holds, getRecord(p) is exactly
\* the three handles of p's latest submission, getLastUpdated(p) is the
\* timestamp of that submission, and hasRecord(p) never returns to false.
C6_RecordOverwritten ==
    /\ [](\A p \in Accounts :
            lastSubmit[p] # NoSubmit =>
                /\ hasRecord(p)
                /\ getRecord(p) = HandlesOf(p, lastSubmit[p].input)
                /\ getLastUpdated(p) = lastSubmit[p].time)
    /\ [][\A p \in Accounts : hasRecord(p) => hasRecord(p)']_vars

\* an account has replaced the record of an earlier input by that of another, later
C6_Witness ==
    \E p \in Accounts :
        /\ lastSubmit[p].input = 2
        /\ acl[fromExternal(p, 1, 0)] # {}
        /\ getRecord(p) = HandlesOf(p, 2)
        /\ getLastUpdated(p) > 2

\* C7: only the patient controls who can view: an address other than the
\* handle's owner and the contract is on a handle's access list only if the
\* owner called grantAccess for it with the handle's metric bit set while the
\* handle was the owner's current record; a transaction of another account
\* changes no list of the owner's handles.
C7_PatientControlled ==
    /\ [](\A h \in Handle : \A v \in acl[h] :
            v \in {h[1], This} \/ <<h, v>> \in granted)
    /\ [][\A h \in Handle :
            acl'[h] # acl[h] => (logs' # <<>> /\ logs'[1].patient = h[1])]_vars

\* a third party is on the list of a handle
C7_Witness ==
    \E h \in Handle : \E v \in acl[h] : v \notin {h[1], This} /\ <<h, v>> \in granted

\* C8: grantAccess with the zero address as viewer reverts with "Invalid viewer
\* address": no permission, record or access list changes and the transaction
\* emits no event.
C8_ZeroViewerRejected ==
    [][\A s \in Accounts, m \in MaskInputs :
        grantAccess(s, ZeroAddress, m) =>
            /\ lastOp'.reverted /\ lastOp'.reason = "Invalid viewer address"
            /\ UNCHANGED <<permissions, records, acl>>
            /\ logs' = <<>>]_vars

\* a grantAccess has just been rejected
C8_Witness == lastOp.op = "grantAccess" /\ lastOp.reverted

(***************************************************************************)
(* Properties of the frontend                                              *)
(***************************************************************************)
\* C9: the frontend awaits one transaction at a time: whatever the user does
\* (submitting the form, Grant, Revoke, switching tabs), a handler calls
\* submitRecord, grantAccess or revokeAccess only when no other handler
\* started from this UI is still awaiting encryption, the signer, sending or
\* tx.wait().
C9_OneTransactionAtATime ==
    [][\A t \in tasks : getSignerResolved(t) => tasks = {t}]_vars

\* the text parses to an integer of lo..hi
ParsesInto(text, lo, hi) ==
    \E n \in lo..hi : parseInt(text) = [nan |-> FALSE, val |-> n]

\* C10: handleSubmit creates the encrypted input and goes on to call
\* contract.submitRecord only when the wallet is connected, the FHE instance
\* and the wallet client are present and the three texts parse to integers of
\* 70..200, 40..200 and 50..400; otherwise it sets an error status, starts
\* nothing, leaves isSubmitting alone, and the first failing check in the
\* order wallet, FHE instance, wallet client, blood pressure, heart rate,
\* glucose decides the message.
C10_ValidationGatesSubmission ==
    /\ [][handleSubmit =>
            LET wallet == isConnected /\ address # Null
                fhe == fheInstance # Null
                bp == ParsesInto(bloodPressure, 70, 200)
                hr == ParsesInto(heartRate, 40, 200)
                gl == ParsesInto(glucoseLevel, 50, 400)
            IN IF wallet /\ fhe /\ walletClient /\ bp /\ hr /\ gl
               THEN /\ rsIsSubmitting'
                    /\ \E t \in tasks' \ tasks :
                          /\ t.kind = "submitRecord" /\ t.pc = "encrypt"
                          /\ parseInt(bloodPressure) = Num(t.args[1])
                          /\ parseInt(heartRate) = Num(t.args[2])
                          /\ parseInt(glucoseLevel) = Num(t.args[3])
               ELSE /\ rsIsSubmitting' = rsIsSubmitting
                    /\ tasks' = tasks
                    /\ sent' = sent
                    /\ rsStatus'.type = "error"
                    /\ rsStatus'.message =
                         (CASE ~wallet -> "Please connect your wallet first"
                            [] wallet /\ ~fhe ->
                                 (IF fheError # Null THEN fheError
                                  ELSE "FHE encryption is still initializing")
                            [] wallet /\ fhe /\ ~walletClient -> "Wallet not ready"
                            [] wallet /\ fhe /\ walletClient /\ ~bp ->
                                 "Blood pressure must be between 70-200 mmHg"
                            [] wallet /\ fhe /\ walletClient /\ bp /\ ~hr ->
                                 "Heart rate must be between 40-200 BPM"
                            [] OTHER -> "Glucose level must be between 50-400 mg/dL")]_vars
    /\ [](\A c \in {t.args : t \in {u \in tasks : u.kind = "submitRecord"}}
                \cup (IF sent.fn = "submitRecord" THEN {sent.args} ELSE {}) :
            c[1] \in 70..200 /\ c[2] \in 40..200 /\ c[3] \in 50..400)

\* a submission was refused for the heart rate alone: the wallet, the FHE
\* instance, the wallet client and the blood pressure passed, nothing started
C10_Witness ==
    /\ rsStatus = Status("error", "Heart rate must be between 40-200 BPM")
    /\ ParsesInto(bloodPressure, 70, 200)
    /\ ~ParsesInto(heartRate, 40, 200)
    /\ ~ParsesInto(glucoseLevel, 50, 400)
    /\ ~rsIsSubmitting /\ tasks = {} /\ sent = NothingSent

\* the inputs of t's form hold what t was started with
InputsHeld(t) ==
    CASE t.kind = "submitRecord" ->
             /\ parseInt(bloodPressure) = Num(t.args[1])
             /\ parseInt(heartRate) = Num(t.args[2])
             /\ parseInt(glucoseLevel) = Num(t.args[3])
      [] t.kind = "grantAccess" -> viewerAddress = t.args[1] /\ calculateMask = t.args[2]
      [] t.kind = "revokeAccess" -> viewerAddress = t.args[1]

\* C11 (as claimed): form clearing is optimistic: the inputs of a handler's
\* form are cleared without waiting for tx.wait(), so while a handler of the
\* rendered component awaits tx.wait() its inputs are already empty.
C11_ClearedBeforeConfirmation ==
    \A t \in tasks :
        Alive(t) /\ t.pc = "wait" =>
            IF t.kind = "submitRecord"
            THEN bloodPressure = <<>> /\ heartRate = <<>> /\ glucoseLevel = <<>>
            ELSE viewerAddress = ""

\* C11 (amended): form clearing waits for the confirmation: while a handler of
\* the rendered component awaits encryption, the signer, sending or tx.wait(),
\* the inputs hold the submitted values; they are cleared in the step in which
\* tx.wait() resolves (the three metric inputs; the address and the checkboxes
\* for Grant; the address only for Revoke), and a rejected await leaves them.
C11_ClearedAfterConfirmation ==
    /\ [](\A t \in tasks : Alive(t) => InputsHeld(t))
    /\ [][\A t \in tasks :
            /\ waitResolved(t) /\ Alive(t) =>
                 CASE t.kind = "submitRecord" ->
                          /\ bloodPressure' = <<>> /\ heartRate' = <<>> /\ glucoseLevel' = <<>>
                   [] t.kind = "grantAccess" ->
                          viewerAddress' = "" /\ selectedMetrics' = NoMetrics
                   [] t.kind = "revokeAccess" ->
                          viewerAddress' = "" /\ selectedMetrics' = selectedMetrics
            /\ awaitRejected(t) =>
                 /\ formVars' = formVars
                 /\ viewerAddress' = viewerAddress
                 /\ selectedMetrics' = selectedMetrics]_vars

\* tx.wait() of a grant resolved in the rendered AccessControl: its inputs are
\* cleared, after the call was sent with the address typed
C11_Witness ==
    /\ acStatus = Status("success", "Access granted successfully!")
    /\ sent.fn = "grantAccess" /\ sent.args[1] = ValidViewer
    /\ viewerAddress = "" /\ selectedMetrics = NoMetrics
    /\ ~acIsSubmitting

\* the isSubmitting and status state of the component that runs handlers of kind k
IsSubmittingOf(k) == IF k = "submitRecord" THEN rsIsSubmitting ELSE acIsSubmitting
StatusOf(k) == IF k = "submitRecord" THEN rsStatus ELSE acStatus
HandlerKinds == {"submitRecord", "grantAccess", "revokeAccess"}

\* C12: await-and-display-status always completes. For each of the three
\* handlers: isSubmitting is true exactly while a handler of the rendered
\* component is running, and once true it eventually becomes false when the
\* awaits settle, by resolving or by rejecting; the handler ends with status
\* success exactly in the step where tx.wait() resolved and with status error
\* when any await rejected; the in-progress message is shown exactly while the
\* handler awaits tx.wait(), after the transaction was sent, and no status is
\* shown before that.
C12_StatusCompletes ==
    /\ [](\A k \in {"submitRecord", "access"} :
            LET running == {t \in tasks : Alive(t) /\ (t.kind = "submitRecord") = (k = "submitRecord")}
            IN /\ IsSubmittingOf(k) <=> running # {}
               /\ \A t \in running :
                     /\ t.pc = "wait" => StatusOf(k) = Status("success", InProgressMessage(t))
                     /\ t.pc # "wait" => StatusOf(k) = NoStatus
               /\ running = {} =>
                     \A j \in HandlerKinds :
                         StatusOf(k).message # InProgressMessage([kind |-> j]))
    /\ [][\A t \in tasks :
            LET st == IF t.kind = "submitRecord" THEN rsStatus' ELSE acStatus'
                sub == IF t.kind = "submitRecord" THEN rsIsSubmitting' ELSE acIsSubmitting'
            IN /\ waitResolved(t) /\ Alive(t) =>
                     st = Status("success", SuccessMessage(t)) /\ ~sub
               /\ awaitRejected(t) /\ Alive(t) =>
                     st.type = "error" /\ ~sub
               /\ (Alive(t) /\ \A u \in tasks' : u.owner # t.owner \/ u.kind # t.kind) =>
                     /\ ~sub
                     /\ st.type \in {"success", "error"}
                     /\ st.type = "success" => t.pc = "wait"]_vars
    /\ (rsIsSubmitting ~> ~rsIsSubmitting)
    /\ (acIsSubmitting ~> ~acIsSubmitting)

\* a submission ended with an error after an await rejected: isSubmitting is
\* false again and the error status is shown
C12_Witness ==
    /\ activeTab = "submit"
    /\ rsStatus = Status("error", "Failed to submit: err")
    /\ ~rsIsSubmitting
    /\ tasks = {}

\* the contract bits of the ticked checkboxes, added up (distinct bits: their OR)
TickedBits ==
    (IF selectedMetrics.bloodPressure THEN 1 ELSE 0)
    + (IF selectedMetrics.heartRate THEN 2 ELSE 0)
    + (IF selectedMetrics.glucoseLevel THEN 4 ELSE 0)

\* C13: the grant form sends grantAccess only with a syntactically valid
\* address and a mask that is not zero and is the OR of the contract bits of
\* the checkboxes ticked when Grant was clicked (1, 2, 4), hence within 1..7;
\* the revoke button sends revokeAccess with the address typed and mask 7
\* whatever is ticked; the call made later carries exactly these values.
C13_MaskSent ==
    /\ [][handleGrantAccess =>
            /\ tasks' # tasks <=>
                 /\ isConnected /\ walletClient
                 /\ isAddress(viewerAddress)
                 /\ TickedBits # 0
            /\ \A t \in tasks' \ tasks :
                 /\ t.kind = "grantAccess"
                 /\ t.args = <<viewerAddress, TickedBits>>]_vars
    /\ [][handleRevokeAccess =>
            /\ tasks' # tasks <=>
                 isConnected /\ walletClient /\ isAddress(viewerAddress)
            /\ \A t \in tasks' \ tasks :
                 /\ t.kind = "revokeAccess"
                 /\ t.args = <<viewerAddress, 7>>]_vars
    /\ [][\A t \in tasks :
            getSignerResolved(t) => sent' = [fn |-> t.kind, args |-> t.args]]_vars
    /\ [](/\ sent.fn = "grantAccess" => isAddress(sent.args[1]) /\ sent.args[2] \in 1..7
          /\ sent.fn = "revokeAccess" => isAddress(sent.args[1]) /\ sent.args[2] = 7)

\* grantAccess was sent for blood pressure and glucose ticked, heart rate not
C13_Witness == sent = [fn |-> "grantAccess", args |-> <<ValidViewer, 5>>]

\* C14: the useFheInstance lifecycle. While RecordSubmit is rendered,
\* isLoading is true exactly while its own initFhe() is pending, with instance
\* and error both null; when that call settles isLoading becomes false and
\* exactly one of instance and error is non-null (instance when createInstance
\* resolved, error when initSDK or createInstance rejected); an initFhe() whose
\* component was unmounted before it settled writes none of instance, error
\* and isLoading, also when RecordSubmit has been mounted again meanwhile.
C14_FheLifecycle ==
    /\ [](activeTab = "submit" =>
            /\ fheLoading <=> \E i \in fheInits : i.owner = inst
            /\ fheLoading => fheInstance = Null /\ fheError = Null
            /\ ~fheLoading => (fheInstance # Null) # (fheError # Null))
    /\ [][\A i \in fheInits :
            i \notin fheInits' =>
                LET settled == \A j \in fheInits' : j.owner # i.owner
                    own == activeTab = "submit" /\ i.owner = inst
                IN IF own /\ settled
                   THEN /\ ~fheLoading'
                        /\ (fheInstance' # Null) # (fheError' # Null)
                        /\ fheInstance' # Null => i.pc = "createInstance"
                   ELSE /\ fheInstance' = fheInstance
                        /\ fheError' = fheError
                        /\ fheLoading' = fheLoading]_vars

\* RecordSubmit was unmounted while its first initFhe() was pending and has
\* been mounted again: the second initialization has completed with an
\* instance while the first is still pending
C14_Witness ==
    /\ activeTab = "submit" /\ inst = 3
    /\ ~fheLoading /\ fheInstance = "instance" /\ fheError = Null
    /\ \E i \in fheInits : i.owner = 1

(***************************************************************************)
(* Further properties of the contract                                      *)
(***************************************************************************)
\* C15: permissions and the FHE access list agree: whenever patient p has an
\* initialized record and getAccess(p, v) has a metric's bit set, v is on the
\* access list of p's current handle of that metric, also when the grant came
\* before the first submitRecord or p submitted again after the grant.
C15_PermissionImpliesAcl ==
    \A p \in Accounts, v \in Address, i \in Metrics :
        hasRecord(p) /\ Bit(getAccess(p, v), i) = 1 => v \in acl[CurrentHandle(p, i)]

\* C16: caller isolation: a submitRecord, grantAccess or revokeAccess call of
\* account c (the account its event names; a reverted call emits none) changes
\* the record and the permission row of c only: for every other patient p,
\* getRecord(p), hasRecord(p), getLastUpdated(p) and getAccess(p, v) for all v
\* are as before; and submitRecord changes no permission bitmask at all.
C16_CallerIsolation ==
    [][LET callers == IF logs' = <<>> THEN {} ELSE {EventPatient'}
       IN /\ \A p \in Accounts \ callers :
                /\ getRecord(p)' = getRecord(p)
                /\ hasRecord(p)' = hasRecord(p)
                /\ getLastUpdated(p)' = getLastUpdated(p)
                /\ \A v \in Address : getAccess(p, v)' = getAccess(p, v)
          /\ lastOp'.op = "submitRecord" =>
                \A p \in Accounts, v \in Address : getAccess(p, v)' = getAccess(p, v)]_vars

\* an account has just revoked bits of a viewer that is itself a patient with a
\* record and with permissions granted to the caller
C16_Witness ==
    /\ lastOp.op = "revokeAccess"
    /\ EventViewer \in Accounts \ {EventPatient}
    /\ hasRecord(EventViewer)
    /\ getAccess(EventViewer, EventPatient) = 7
    /\ getAccess(EventPatient, EventViewer) = 0

====
